---- MODULE Spec2Model ----
(***************************************************************************)
(* Railway-oriented signup pipelines of the examples:                      *)
(*   example/6_0_rop.py            hand-written Result with bind           *)
(*   example/6_2_rop__returns.py   the same pipeline with other messages   *)
(*   example/0_0_imperative.py     the imperative signup                   *)
(*   example/5_0_error__toolz_try_catch.py   exceptions wrapped in context *)
(*                                                                         *)
(* A Python str is a sequence of one-character strings.  A message is a    *)
(* sequence of text fragments; an f-string is the concatenation of its     *)
(* fragments.  The character U+2265 of the messages is written ">=".       *)
(* Python's None is the one-element sequence <<"None">>, which is no str   *)
(* (every element of a str is a single character).                         *)
(***************************************************************************)
EXTENDS Integers, Sequences, FiniteSets, TLC

VARIABLES
    variant,    \* which example module runs: "rop" (6_0) or "returns" (6_2)
    DATABASE,   \* the module's global set of emails
    pc,         \* "idle" (no call yet) | "run" (inside signup) | "done" (returned)
    email,      \* the argument of the current signup call
    steps,      \* the functions the call chains with bind, in order
    idx,        \* the next bind of the chain
    res,        \* the Result the next bind is invoked on
    log,        \* the step functions invoked so far in this call, in order
    hist,       \* the Result returned by each bind so far in this call
    dbBefore,   \* DATABASE when the current call started
    impDB,      \* DATABASE of 0_0_imperative.py
    impRet,     \* what 0_0_imperative.signup returned for the same argument
    nCalls,     \* number of signup calls started
    successes,  \* the normalised emails of the calls that returned Success
    out5        \* what 5_0's signup did on its last call

vars == <<variant, DATABASE, pc, email, steps, idx, res, log, hist, dbBefore,
          impDB, impRet, nCalls, successes, out5>>

-----------------------------------------------------------------------------
(* Bounds *)

MaxCore == 2        \* longest generated argument before padding
MaxPad == 1         \* most blanks added on each side of an argument
MaxSignups == 3     \* signup calls in one behaviour
MaxSteps == 2       \* longest generated chain of binds

(* validate_length(5), ensure_min_length(5), len(email) < 5 *)
MinLen == 5

-----------------------------------------------------------------------------
(* Python values *)

None == <<"None">>

Alphabet == {" ", "a", "A"}

UpperCase == <<"A","B","C","D","E","F","G","H","I","J","K","L","M",
               "N","O","P","Q","R","S","T","U","V","W","X","Y","Z">>
LowerCase == <<"a","b","c","d","e","f","g","h","i","j","k","l","m",
               "n","o","p","q","r","s","t","u","v","w","x","y","z">>

IsSpace(c) == c \in {" ", "\t", "\n", "\r"}

LowerChar(c) ==
    IF \E i \in 1..26 : UpperCase[i] = c
    THEN LowerCase[CHOOSE i \in 1..26 : UpperCase[i] = c]
    ELSE c

(* str.lower *)
Lower(s) == [i \in 1..Len(s) |-> LowerChar(s[i])]

RECURSIVE LStrip(_)
LStrip(s) == IF s # <<>> /\ IsSpace(Head(s)) THEN LStrip(Tail(s)) ELSE s

RECURSIVE RStrip(_)
RStrip(s) ==
    IF s # <<>> /\ IsSpace(s[Len(s)]) THEN RStrip(SubSeq(s, 1, Len(s) - 1)) ELSE s

(* str.strip *)
Strip(s) == RStrip(LStrip(s))

(* all strs over Alphabet of length at most n *)
Strs(n) == UNION {[1..k -> Alphabet] : k \in 0..n}

RECURSIVE Pad(_)
Pad(n) == IF n = 0 THEN <<>> ELSE <<" ">> \o Pad(n - 1)

(* the arguments the examples print signup of, and two of boundary length *)
NewEx == <<" "," "," ","n","e","w","@","e","x",".","c","o","m"," "," ">>
NewExample ==
    <<" "," "," ","n","e","w","@","E","X","A","M","P","L","E",".","c","o","m"," "," ">>
NewExCom == <<"n","e","w","@","e","x",".","c","o","m">>
TestExample == <<"t","e","s","t","@","e","x","a","m","p","l","e",".","c","o","m">>
UpperTest == <<"T","e","s","t","@","e","x","a","m","p","l","e",".","c","o","m">>
Abc == <<"a","b","c">>
Len4 == <<"a","@","b","c">>
Len5 == <<"a","@","B",".","c">>

NamedCores == {NewExCom, TestExample, UpperTest, Abc, Len4, Len5}

Inputs ==
    {Pad(l) \o c \o Pad(r) :
        l \in 0..MaxPad, r \in 0..MaxPad, c \in Strs(MaxCore) \cup NamedCores}
    \cup {NewEx, NewExample}

SignupSuccessful == <<"S","i","g","n","u","p"," ","s","u","c","c","e","s","s","f","u","l",":"," ">>

-----------------------------------------------------------------------------
(* Result *)

Result(value, is_success, error) ==
    [value |-> value, is_success |-> is_success, error |-> error]

Success(v) == Result(v, TRUE, None)

(* failure() that leaves the argument in the value slot as well *)
FailureBoth(e) == Result(e, FALSE, e)

Failure(e) == Result(None, FALSE, e)

(* the attribute reads r.value and r.error: plain attributes, whatever the *)
(* variant, so a read returns what __init__ stored and never raises       *)
AttrValue(r) == [raised |-> FALSE, got |-> r.value]

AttrError(r) == [raised |-> FALSE, got |-> r.error]

-----------------------------------------------------------------------------
(* Step functions.  A step runs in a world w = [db, log]: the set the step *)
(* was curried with (the module's DATABASE, by reference) and the list of  *)
(* step functions invoked so far.                                          *)

TooShortMsg(min_len) ==
    IF variant = "rop"
    THEN <<"Email too short, must be >= ", ToString(min_len)>>
    ELSE <<"Too short, must be >= ", ToString(min_len)>>

ExistsMsg ==
    IF variant = "rop" THEN <<"Email already exists">> ELSE <<"Already exists">>

(* trim that strips the leading blanks only *)
trim_left(v, w) == [res |-> Success(LStrip(v)), w |-> w]

trim(v, w) == [res |-> Success(Strip(v)), w |-> w]

(* lower that returns its argument as it is *)
lower_noop(v, w) == [res |-> Success(v), w |-> w]

lower(v, w) == [res |-> Success(Lower(v)), w |-> w]

validate_length(min_len, v, w) ==
    IF Len(v) < min_len
    THEN [res |-> Failure(TooShortMsg(min_len)), w |-> w]
    ELSE [res |-> Success(v), w |-> w]

(* validate_available that never looks the email up *)
validate_available_never(v, w) == [res |-> Success(v), w |-> w]

validate_available(v, w) ==
    IF v \in w.db
    THEN [res |-> Failure(ExistsMsg), w |-> w]
    ELSE [res |-> Success(v), w |-> w]

insert(v, w) ==
    [res |-> Success(SignupSuccessful \o v), w |-> [w EXCEPT !.db = @ \cup {v}]]

StepNames == {"trim", "lower", "validate_length", "validate_available", "insert"}

(* the call func(self.value) of a step function, by its name *)
Call(fn, v, w) ==
    LET w1 == [w EXCEPT !.log = Append(@, fn)] IN
    CASE fn = "trim" -> trim(v, w1)
      [] fn = "lower" -> lower(v, w1)
      [] fn = "validate_length" -> validate_length(MinLen, v, w1)
      [] fn = "validate_available" -> validate_available(v, w1)
      [] fn = "insert" -> insert(v, w1)

RECURSIVE Apply(_, _, _)
RECURSIVE bind(_, _, _)

(* bind that invokes func on a Failure too and returns what it returns *)
bind_always(self, func, w) == Apply(func, self.value, w)

(* bind that invokes func on a Failure too, and then propagates the Failure *)
bind_eager(self, func, w) ==
    LET o == Apply(func, self.value, w) IN
    IF self.is_success THEN o ELSE [res |-> self, w |-> o.w]

(* bind that puts its own context before the error of a Failure *)
bind_wrap(self, func, w) ==
    IF self.is_success
    THEN Apply(func, self.value, w)
    ELSE [res |-> Failure(<<"bind: ">> \o self.error), w |-> w]

(* Result.bind: func is a non-empty sequence of step names; <<f>> is the   *)
(* step f and <<f, g, ...>> is the step  x -> f(x).bind(<<g, ...>>).       *)
bind(self, func, w) ==
    IF self.is_success
    THEN Apply(func, self.value, w)
    ELSE [res |-> self, w |-> w]

Apply(func, v, w) ==
    IF Len(func) = 1
    THEN Call(func[1], v, w)
    ELSE LET o == Call(Head(func), v, w) IN bind(o.res, Tail(func), o.w)

SignupSteps == <<"trim", "lower", "validate_length", "validate_available", "insert">>

(* the chain applied from its last function to its first *)
StepAtReversed(ss, i) == ss[Len(ss) + 1 - i]

(* the i-th function of a chain: binds are applied in the order written *)
StepAt(ss, i) == ss[i]

-----------------------------------------------------------------------------
(* 0_0_imperative.signup *)

ErrTooShort == <<"Error: email too short">>
ErrRegistered == <<"Error: email already registered">>
SignupOK == <<"Signup successful">>

ImperativeSignup(e0, db) ==
    LET e == Lower(Strip(e0)) IN
    IF Len(e) < MinLen THEN [ret |-> ErrTooShort, db |-> db]
    ELSE IF e \in db THEN [ret |-> ErrRegistered, db |-> db]
    ELSE [ret |-> SignupOK, db |-> db \cup {e}]

-----------------------------------------------------------------------------
(* The calls of signup *)

NoOut5 == [kind |-> "none", text |-> <<>>, fault |-> <<>>, context |-> <<>>]

Init ==
    /\ variant \in {"rop", "returns"}
    /\ DATABASE = {TestExample}
    /\ pc = "idle"
    /\ email = <<>>
    /\ steps = SignupSteps
    /\ idx = 1
    /\ res = Success(<<>>)
    /\ log = <<>>
    /\ hist = <<>>
    /\ dbBefore = {TestExample}
    /\ impDB = {TestExample}
    /\ impRet = <<>>
    /\ nCalls = 0
    /\ successes = <<>>
    /\ out5 = NoOut5

(* signup(email) is called: Result.success(email) starts the chain *)
Start ==
    /\ pc \in {"idle", "done"}
    /\ nCalls < MaxSignups
    /\ \E e \in Inputs :
        /\ email' = e
        /\ res' = Success(e)
        /\ LET imp == ImperativeSignup(e, impDB) IN
            /\ impDB' = imp.db
            /\ impRet' = imp.ret
    /\ pc' = "run"
    /\ idx' = 1
    /\ log' = <<>>
    /\ hist' = <<>>
    /\ dbBefore' = DATABASE
    /\ nCalls' = nCalls + 1
    /\ UNCHANGED <<variant, DATABASE, steps, successes, out5>>

(* the next .bind(step) of the chain *)
BindStep ==
    /\ pc = "run"
    /\ idx <= Len(steps)
    /\ LET o == bind(res, <<StepAt(steps, idx)>>, [db |-> DATABASE, log |-> log]) IN
        /\ res' = o.res
        /\ DATABASE' = o.w.db
        /\ log' = o.w.log
        /\ hist' = Append(hist, o.res)
    /\ idx' = idx + 1
    /\ UNCHANGED <<variant, pc, email, steps, dbBefore, impDB, impRet, nCalls,
                   successes, out5>>

(* signup returns the Result of the last bind *)
Return ==
    /\ pc = "run"
    /\ idx > Len(steps)
    /\ pc' = "done"
    /\ successes' = IF res.is_success
                    THEN Append(successes, Lower(Strip(email)))
                    ELSE successes
    /\ UNCHANGED <<variant, DATABASE, email, steps, idx, res, log, hist, dbBefore,
                   impDB, impRet, nCalls, out5>>

Next == Start \/ BindStep \/ Return

Spec == Init /\ [][Next]_vars

-----------------------------------------------------------------------------
(* Chains of binds over caller-chosen steps, arguments and repositories *)

Seqs(S, n) == UNION {[1..k -> S] : k \in 0..n}

Pipelines == Seqs(StepNames, MaxSteps) \cup {SignupSteps}

BindInputs == NamedCores \cup {NewEx, <<>>, <<" ","A","b","c"," ">>}

Repos == SUBSET {Abc, TestExample}

InitBind ==
    /\ variant \in {"rop", "returns"}
    /\ DATABASE \in Repos
    /\ dbBefore = DATABASE
    /\ pc = "run"
    /\ email \in BindInputs
    /\ steps \in Pipelines
    /\ idx = 1
    /\ res = Success(email)
    /\ log = <<>>
    /\ hist = <<>>
    /\ impDB = {TestExample}
    /\ impRet = <<>>
    /\ nCalls = 1
    /\ successes = <<>>
    /\ out5 = NoOut5

NextBind == BindStep \/ Return

SpecBind == InitBind /\ [][NextBind]_vars

-----------------------------------------------------------------------------
(* 5_0_error__toolz_try_catch.py.  A call returns [ok, val] or raises the  *)
(* exception [type, msg]; orig is the message of the first exception       *)
(* raised and ctx the text the last handler put before it.                 *)

Ok(v) == [ok |-> TRUE, val |-> v, type |-> "", msg |-> <<>>, orig |-> <<>>, ctx |-> <<>>]

Raise(type, msg) ==
    [ok |-> FALSE, val |-> None, type |-> type, msg |-> msg, orig |-> msg, ctx |-> <<>>]

(* a handler that raises its context alone, without the message it caught *)
ReraiseContextOnly(context, o) ==
    [ok |-> FALSE, val |-> None, type |-> "ValueError", msg |-> context,
     orig |-> o.orig, ctx |-> context]

(* except Exception as e: raise ValueError(f"{context}{e}") *)
Reraise(context, o) ==
    [ok |-> FALSE, val |-> None, type |-> "ValueError", msg |-> context \o o.msg,
     orig |-> o.orig, ctx |-> context]

(* str(x) *)
Str(x) == IF x = None THEN <<"N","o","n","e">> ELSE x

(* str.strip(x), str.lower(x): a descriptor of str applied to a non-str *)
StrMethod(step, x) ==
    IF x = None
    THEN Raise("TypeError",
               <<"descriptor '", step,
                 "' for 'str' objects doesn't apply to a 'NoneType' object">>)
    ELSE Ok(IF step = "strip" THEN Strip(x) ELSE Lower(x))

safe_cleanup(step, x) ==
    LET o == StrMethod(step, x) IN
    IF o.ok THEN o
    ELSE Reraise(<<"Cleanup step failed on '">> \o Str(x) \o <<"': ">>, o)

ensure_min_length(min_len, x) ==
    LET o == IF Len(x) < min_len
             THEN Raise("ValueError", <<"Email too short, must be >= ", ToString(min_len)>>)
             ELSE Ok(x)
    IN IF o.ok THEN o ELSE Reraise(<<"Length validation failed: ">>, o)

ensure_not_exists(db, x) ==
    LET o == IF x \in db THEN Raise("ValueError", <<"Email already exists">>) ELSE Ok(x)
    IN IF o.ok THEN o ELSE Reraise(<<"Availability check failed: ">>, o)

(* pipe(raw_email, trim, lower), check_length, check_available *)
Checked(raw, db) ==
    LET t == safe_cleanup("strip", raw) IN
    IF ~t.ok THEN t ELSE
    LET l == safe_cleanup("lower", t.val) IN
    IF ~l.ok THEN l ELSE
    LET c == ensure_min_length(MinLen, l.val) IN
    IF ~c.ok THEN c ELSE ensure_not_exists(db, c.val)

(* signup of 5_0: what it returns or raises, and DATABASE afterwards *)
signup5(raw, db) ==
    LET o == Checked(raw, db) IN
    IF o.ok
    THEN [kind |-> "return", text |-> SignupSuccessful \o o.val, fault |-> <<>>,
          context |-> <<>>, db |-> db \cup {o.val}]
    ELSE IF o.type = "ValueError"
    THEN [kind |-> "return", text |-> <<"Error: ">> \o o.msg, fault |-> o.orig,
          context |-> o.ctx, db |-> db]
    ELSE [kind |-> "raise", text |-> o.msg, fault |-> o.orig, context |-> o.ctx,
          db |-> db]

Init5 ==
    /\ variant = "try_catch"
    /\ DATABASE = {TestExample}
    /\ dbBefore = {TestExample}
    /\ pc = "idle"
    /\ email = <<>>
    /\ steps = <<>>
    /\ idx = 1
    /\ res = Success(<<>>)
    /\ log = <<>>
    /\ hist = <<>>
    /\ impDB = {TestExample}
    /\ impRet = <<>>
    /\ nCalls = 0
    /\ successes = <<>>
    /\ out5 = NoOut5

Signup5 ==
    /\ nCalls < MaxSignups
    /\ \E raw \in Inputs \cup {None} :
        LET o == signup5(raw, DATABASE) IN
        /\ email' = raw
        /\ out5' = [kind |-> o.kind, text |-> o.text, fault |-> o.fault,
                    context |-> o.context]
        /\ DATABASE' = o.db
    /\ dbBefore' = DATABASE
    /\ pc' = "done"
    /\ nCalls' = nCalls + 1
    /\ UNCHANGED <<variant, steps, idx, res, log, hist, impDB, impRet, successes>>

Next5 == Signup5

Spec5 == Init5 /\ [][Next5]_vars

-----------------------------------------------------------------------------
(* Properties *)

Range(q) == {q[i] : i \in 1..Len(q)}

(* the email signup works on after trim and lower *)
Norm(e) == Lower(Strip(e))

(* the Result the i-th bind of the current call was invoked on *)
InResult(i) == IF i = 1 THEN Success(email) ELSE hist[i - 1]

World == [db |-> DATABASE, log |-> log]

Results == {res} \cup Range(hist)

(* the call failed in step fn: fn is the last step invoked *)
FailedIn(fn) == ~res.is_success /\ log # <<>> /\ log[Len(log)] = fn

(* C1: a bind invoked on a Failure returns that Failure unchanged and does  *)
(* not invoke its step: the steps invoked in a call are the first steps of  *)
(* the chain, each once and in order, up to the first one that failed, and  *)
(* none after it.                                                           *)
C1_ShortCircuit ==
    /\ log = SubSeq(steps, 1, Len(log))
    /\ \A i \in 1..Len(hist) :
        ~InResult(i).is_success => hist[i] = InResult(i) /\ Len(log) < i

(* the signup chain failed in its third step and went through two more binds *)
C1_Witness ==
    /\ pc = "done"
    /\ steps = SignupSteps
    /\ Len(hist) = 5
    /\ hist[2].is_success
    /\ ~hist[3].is_success

(* C2: associativity: for the Result r at hand, Success or Failure, and all *)
(* steps f and g, r.bind(f).bind(g) and r.bind(x -> f(x).bind(g)) are the   *)
(* same Result, and leave the same repository and the same invocations.     *)
C2_Associativity ==
    \A f \in StepNames, g \in StepNames :
        LET a == bind(res, <<f>>, World)
        IN bind(a.res, <<g>>, a.w) = bind(res, <<f, g>>, World)

(* r is a Success on which some f fails, so that g is skipped in both groupings *)
C2_Witness ==
    /\ res.is_success
    /\ Len(hist) >= 1
    /\ \E f \in StepNames : ~bind(res, <<f>>, World).res.is_success

(* C3 as stated: signup("   new@ex.com  ") on the initial repository yields *)
(* Success("new@ex.com") and the repository then holds "new@ex.com".        *)
C3_Original ==
    (pc = "done" /\ email = NewEx /\ dbBefore = {TestExample})
        => (res = Success(NewExCom) /\ NewExCom \in DATABASE)

(* C3 amended: signup("   new@ex.com  ") on the initial repository yields   *)
(* Success("Signup successful: new@ex.com"), the value insert returns, and  *)
(* the repository then holds "new@ex.com".                                  *)
C3_Amended ==
    (pc = "done" /\ email = NewEx /\ dbBefore = {TestExample})
        => (res = Success(SignupSuccessful \o NewExCom) /\ NewExCom \in DATABASE)

C3_Witness == pc = "done" /\ email = NewEx /\ dbBefore = {TestExample}

C5_OneVariant ==
    \A r \in Results :
        \/ r.is_success /\ r.value # None /\ r.error = None
        \/ ~r.is_success /\ r.value = None /\ r.error # None

(* a call that built Results of both variants *)
C5_Witness ==
    /\ \E i \in 1..Len(hist) : hist[i].is_success
    /\ \E i \in 1..Len(hist) : ~hist[i].is_success

(* C6 as stated: reading value on a Failure, or error on a Success, raises. *)
C6_AccessorsFailFast ==
    \A r \in Results :
        /\ ~r.is_success => AttrValue(r).raised
        /\ r.is_success => AttrError(r).raised

(* C7: when a step of 5_0's signup raised, signup returns (nothing escapes) *)
(* the text "Error: ", then the context of the handler that caught the      *)
(* exception, then the whole message of the exception first raised.         *)
C7_WrappedFault ==
    out5.fault # <<>> =>
        /\ out5.kind = "return"
        /\ out5.context # <<>>
        /\ out5.text = <<"Error: ">> \o out5.context \o out5.fault

(* ensure_min_length raised on "abc" *)
C7_Witness ==
    /\ email = Abc
    /\ out5.fault = <<"Email too short, must be >= ", "5">>
    /\ out5.context = <<"Length validation failed: ">>

(* C8: on a value shorter than 5 that is in the repository, the chain       *)
(* [validate_length, validate_available] returns the too-short Failure and  *)
(* the chain [validate_available, validate_length] the already-exists       *)
(* Failure: the first step of the chain as written is the one that fails.   *)
C8_OrderSensitive ==
    (pc = "done" /\ Len(email) < MinLen /\ email \in dbBefore) =>
        /\ steps = <<"validate_length", "validate_available">> =>
            res = Failure(TooShortMsg(MinLen)) /\ log = <<"validate_length">>
        /\ steps = <<"validate_available", "validate_length">> =>
            res = Failure(ExistsMsg) /\ log = <<"validate_available">>

C8_Witness ==
    /\ pc = "done"
    /\ Len(email) < MinLen
    /\ email \in dbBefore
    /\ steps = <<"validate_available", "validate_length">>

(* C9: the repository only grows, by at most one element a call; what a     *)
(* call adds is its trimmed, lower-cased argument, of length at least 5 and *)
(* not in the repository when the call started; no normalised email has two *)
(* calls that return Success.                                               *)
C9_Repository ==
    /\ {TestExample} \cup Range(successes) \subseteq DATABASE
    /\ dbBefore \subseteq DATABASE
    /\ Cardinality(DATABASE \ dbBefore) <= 1
    /\ \A e \in DATABASE \ {TestExample} :
        Strip(e) = e /\ Lower(e) = e /\ Len(e) >= MinLen
    /\ \A e \in DATABASE \ dbBefore : e = Norm(email)
    /\ pc = "done" /\ res.is_success =>
        Norm(email) \notin dbBefore /\ DATABASE = dbBefore \cup {Norm(email)}
    /\ \A i \in 1..Len(successes), j \in 1..Len(successes) :
        i # j => successes[i] # successes[j]

(* a second signup of an email that an earlier call registered *)
C9_Witness ==
    /\ pc = "done"
    /\ ~res.is_success
    /\ Norm(email) \in Range(successes)

(* C10: after every call the imperative signup and the railway signup, fed  *)
(* the same arguments, hold the same repository, and the imperative one     *)
(* returned "Signup successful" exactly when the railway one returned a     *)
(* Success, its too-short error exactly when the railway one failed in      *)
(* validate_length, and its already-registered error exactly when the       *)
(* railway one failed in validate_available.                                *)
C10_Equivalent ==
    pc = "done" =>
        /\ impDB = DATABASE
        /\ impRet = SignupOK <=> res.is_success
        /\ impRet = ErrTooShort <=> FailedIn("validate_length")
        /\ impRet = ErrRegistered <=> FailedIn("validate_available")

(* both refuse an email that an earlier call registered *)
C10_Witness ==
    /\ pc = "done"
    /\ impRet = ErrRegistered
    /\ Norm(email) # TestExample

====
